---- MODULE Spec2Model ----
(***************************************************************************)
(* Model of packages/api/src/functions/chat-post.ts: the handler postChat  *)
(* (validation, backend selection, retrieval, generation, failure path)    *)
(* and the ndjson transcoder createJsonStream.                             *)
(*                                                                         *)
(* Text is modelled as a sequence of characters (one-character strings);   *)
(* the fixed structural parts of a JSON line and the opaque fields of a    *)
(* retrieved document are single tokens of such a sequence.                *)
(***************************************************************************)
EXTENDS Integers, Sequences, FiniteSets, TLC

VARIABLES
    azureOpenAiEndpoint, \* process.env.AZURE_OPENAI_API_ENDPOINT as read at entry
    requestBody,         \* the body of the HTTP request
    state,               \* position of the request in postChat / the stream
    calls,               \* backend constructors and calls made, in order
    logs,                \* what was written to context.log / context.error
    response,            \* the HttpResponseInit returned by postChat
    thrown,              \* the exception raised for this request, and where
    retrieved,           \* the documents returned by retriever.invoke
    promptContext,       \* the {context} text rendered for the chat model
    responseStream,      \* the fragments the chat model produces, and how it ends
    pulled,              \* number of fragments requested from responseStream
    handled,             \* number of fragments createJsonStream is through with
    holding,             \* createJsonStream is inside the loop body with a chunk
    chunk,               \* the loop variable of createJsonStream
    jsonStream           \* the lines yielded by createJsonStream, in order

vars == <<azureOpenAiEndpoint, requestBody, state, calls, logs, response, thrown,
          retrieved, promptContext, responseStream, pulled, handled, holding,
          chunk, jsonStream>>

handlerVars == <<calls, logs, response, retrieved, promptContext>>
streamVars == <<responseStream, pulled, handled, holding, chunk, jsonStream>>

-----------------------------------------------------------------------------
(* Bounds *)

MaxMessages == 2
MaxFragments == 3
MaxHandlerFragments == 2

-----------------------------------------------------------------------------
(* Inputs *)

SeqsUpTo(S, n) == UNION {[1..k -> S] : k \in 0..n}

Undefined == "<undefined>"

Endpoints == {Undefined, "https://example.openai.azure.com"}

\* A chat message as the handler sees it: only `content` is ever read.
Messages ==
    {[hasContent |-> FALSE, content |-> ""],
     [hasContent |-> TRUE, content |-> ""],
     [hasContent |-> TRUE, content |-> "Where should I move?"],
     [hasContent |-> TRUE, content |-> "I am 30 and speak French"]}

RequestBodies ==
    {[parseable |-> FALSE, hasMessages |-> FALSE, messages |-> <<>>],
     [parseable |-> TRUE, hasMessages |-> FALSE, messages |-> <<>>]}
    \cup {[parseable |-> TRUE, hasMessages |-> TRUE, messages |-> m] :
            m \in SeqsUpTo(Messages, MaxMessages)}

ErrorMessages == {"connect ECONNREFUSED", "index file not found"}

Documents ==
    {[source |-> "a.txt", pageContent |-> "X"],
     [source |-> "b.txt", pageContent |-> "Y"],
     [source |-> "a.txt", pageContent |-> "Z"]}

\* Text fragments a chat model can produce.
Fragments ==
    {<<>>, <<"H", "e", "l">>, <<"l", "o">>, <<"\"">>, <<"\\", "n">>, <<"\n">>}

HandlerFragments == {<<>>, <<"H", "e", "l">>}

Endings == {"done"} \cup ErrorMessages

Streams(F, n) == [frags : SeqsUpTo(F, n), ending : Endings]

-----------------------------------------------------------------------------
(* Values *)

NoError == [at |-> "none", message |-> ""]
NoResponse == [kind |-> "none", body |-> "", headers |-> <<>>]
NoStream == [frags |-> <<>>, ending |-> "done"]

Call(fn, arg) == [fn |-> fn, arg |-> arg]

Truthy(v) == v \notin {Undefined, ""}

badRequest(message) == [kind |-> "badRequest", body |-> message, headers |-> <<>>]

serviceUnavailable(message) ==
    [kind |-> "serviceUnavailable", body |-> message, headers |-> <<>>]

data(body, headers) == [kind |-> "data", body |-> body, headers |-> headers]

InvalidMessage == "Invalid or missing messages in the request body"
GenericMessage == "Service temporarily unavailable. Please try again later."
ErrorLogPrefix == "Error when processing chat-post request: "
LocalLogMessage == "No Azure OpenAI endpoint set, using Ollama models and local DB"

TopK == 3

-----------------------------------------------------------------------------
(* postChat: validation *)

\* messages.at(i)?.content for a negative i: undefined when there is no such element
contentAt(messages, i) ==
    IF Len(messages) + 1 + i \in DOMAIN messages
    THEN messages[Len(messages) + 1 + i]
    ELSE [hasContent |-> FALSE, content |-> ""]

\* !messages.at(-1)?.content
LastContentFalsy(messages) ==
    LET last == contentAt(messages, -1) IN ~last.hasContent \/ last.content = ""

InvalidMessagesNoContentCheck(body) ==
    \/ ~body.hasMessages
    \/ Len(body.messages) = 0

\* !messages || messages.length === 0 || !messages.at(-1)?.content
InvalidMessages(body) ==
    \/ ~body.hasMessages
    \/ Len(body.messages) = 0
    \/ LastContentFalsy(body.messages)

-----------------------------------------------------------------------------
(* postChat: the catch block *)

CatchResponseLeaking(message) == serviceUnavailable(message)

CatchResponse(message) == serviceUnavailable(GenericMessage)

ErrorLog(message) == [level |-> "error", text |-> <<ErrorLogPrefix, message>>]

Catch(where, message) ==
    /\ thrown' = [at |-> where, message |-> message]
    /\ logs' = Append(logs, ErrorLog(message))
    /\ response' = CatchResponse(message)
    /\ state' = "Failed"

-----------------------------------------------------------------------------
(* postChat: backend selection *)

CloudCalls ==
    <<Call("getCredentials", <<>>),
      Call("getAzureOpenAiTokenProvider", <<>>),
      Call("AzureOpenAIEmbeddings", <<>>),
      Call("AzureChatOpenAI", <<>>),
      Call("AzureCosmosDBNoSQLVectorStore", <<>>)>>

LocalCalls ==
    <<Call("OllamaEmbeddings", <<>>),
      Call("ChatOllama", <<>>),
      Call("FaissStore.load", <<>>)>>

BackendCallsBoth(endpoint) == CloudCalls \o LocalCalls

BackendCalls(endpoint) == IF Truthy(endpoint) THEN CloudCalls ELSE LocalCalls

BackendLogs(endpoint) ==
    IF Truthy(endpoint) THEN <<>> ELSE <<[level |-> "log", text |-> <<LocalLogMessage>>]>>

-----------------------------------------------------------------------------
(* postChat: retrieval and the document context *)

questionFirst(messages) == messages[1].content

question(messages) == contentAt(messages, -1).content

asRetriever(query) == Call("similaritySearch", <<query, TopK>>)

\* What a similarity search for k documents can return.
SearchResults(k) ==
    {d \in SeqsUpTo(Documents, k) : \A i, j \in 1..Len(d) : i # j => d[i] # d[j]}

documentPromptNoNewline(doc) == <<"[", doc.source, "]", ":", " ", doc.pageContent>>

\* PromptTemplate.fromTemplate('[{source}]: {page_content}\n')
documentPrompt(doc) == <<"[", doc.source, "]", ":", " ", doc.pageContent, "\n">>

\* createStuffDocumentsChain is given no documentSeparator: the chain joins the
\* rendered documents with its default separator, a blank line.
documentSeparator == <<"\n", "\n">>

RECURSIVE formatDocuments(_)
formatDocuments(docs) ==
    IF Len(docs) = 0 THEN <<>>
    ELSE IF Len(docs) = 1 THEN documentPrompt(docs[1])
    ELSE documentPrompt(docs[1]) \o documentSeparator \o formatDocuments(Tail(docs))

StreamHeaders ==
    <<<<"Content-Type", "application/x-ndjson">>, <<"Transfer-Encoding", "chunked">>>>

-----------------------------------------------------------------------------
(* createJsonStream *)

QuoteJSONCharRaw(c) == <<c>>

\* JSON.stringify of one character of a string
QuoteJSONChar(c) ==
    IF c = "\"" THEN <<"\\", "\"">>
    ELSE IF c = "\\" THEN <<"\\", "\\">>
    ELSE IF c = "\n" THEN <<"\\", "n">>
    ELSE <<c>>

RECURSIVE QuoteJSONString(_)
QuoteJSONString(s) ==
    IF s = <<>> THEN <<>> ELSE QuoteJSONChar(Head(s)) \o QuoteJSONString(Tail(s))

ObjectOpen == "{\"delta\":{\"content\":"
ObjectClose == ",\"role\":\"assistant\"}}"

\* JSON.stringify({delta: {content, role}})
JSONstringify(responseChunk) ==
    <<ObjectOpen, "\"">> \o QuoteJSONString(responseChunk.delta.content)
        \o <<"\"", ObjectClose>>

ResponseChunk(c) == [delta |-> [content |-> c, role |-> "assistant"]]

Line(c) == JSONstringify(ResponseChunk(c)) \o <<"\n">>

CanPullEagerly == TRUE

\* the for-await loop asks for the next chunk only from the top of the loop
CanPull == ~holding

\* !chunk
ChunkFalsy(c) == c = <<>>

-----------------------------------------------------------------------------
(* The request arrives: postChat is entered *)

Init ==
    /\ azureOpenAiEndpoint \in Endpoints
    /\ requestBody \in RequestBodies
    /\ state = "Received"
    /\ calls = <<>>
    /\ logs = <<>>
    /\ response = NoResponse
    /\ thrown = NoError
    /\ retrieved = <<>>
    /\ promptContext = <<>>
    /\ responseStream = NoStream
    /\ pulled = 0
    /\ handled = 0
    /\ holding = FALSE
    /\ chunk = <<>>
    /\ jsonStream = <<>>

\* await request.json() throws: the catch block runs
RequestJsonThrows ==
    /\ state = "Received"
    /\ ~requestBody.parseable
    /\ \E e \in ErrorMessages : Catch("json", e)
    /\ UNCHANGED <<azureOpenAiEndpoint, requestBody, calls, retrieved, promptContext>>
    /\ UNCHANGED streamVars

\* the validation at the top of the try block rejects the request
RejectMessages ==
    /\ state = "Received"
    /\ requestBody.parseable
    /\ InvalidMessages(requestBody)
    /\ response' = badRequest(InvalidMessage)
    /\ state' = "Rejected"
    /\ UNCHANGED <<azureOpenAiEndpoint, requestBody, calls, logs, thrown, retrieved,
                   promptContext>>
    /\ UNCHANGED streamVars

AcceptMessages ==
    /\ state = "Received"
    /\ requestBody.parseable
    /\ ~InvalidMessages(requestBody)
    /\ state' = "Validated"
    /\ UNCHANGED <<azureOpenAiEndpoint, requestBody, thrown>>
    /\ UNCHANGED handlerVars
    /\ UNCHANGED streamVars

\* The if/else that builds embeddings, model and store. Any of its calls can
\* throw; failAt = 0 is the run in which none does.
SelectBackend ==
    /\ state = "Validated"
    /\ LET todo == BackendCalls(azureOpenAiEndpoint) IN
       \E failAt \in 0..Len(todo) :
          /\ calls' = calls \o SubSeq(todo, 1, IF failAt = 0 THEN Len(todo) ELSE failAt)
          /\ IF failAt = 0
             THEN /\ logs' = logs \o BackendLogs(azureOpenAiEndpoint)
                  /\ state' = "BackendSelected"
                  /\ UNCHANGED <<response, thrown>>
             ELSE \E e \in ErrorMessages :
                     /\ thrown' = [at |-> "backend", message |-> e]
                     /\ logs' = (logs \o BackendLogs(azureOpenAiEndpoint))
                                   \o <<ErrorLog(e)>>
                     /\ response' = CatchResponse(e)
                     /\ state' = "Failed"
    /\ UNCHANGED <<azureOpenAiEndpoint, requestBody, retrieved, promptContext>>
    /\ UNCHANGED streamVars

\* createStuffDocumentsChain, store.asRetriever(3), then
\* await retriever.invoke(question)
RetrieveContext ==
    /\ state = "BackendSelected"
    /\ LET chain == Call("createStuffDocumentsChain", <<>>)
           search == asRetriever(question(requestBody.messages))
       IN \/ /\ calls' = Append(calls, chain)
             /\ \E e \in ErrorMessages : Catch("chain", e)
             /\ UNCHANGED retrieved
          \/ /\ calls' = calls \o <<chain, search>>
             /\ \E e \in ErrorMessages : Catch("retriever", e)
             /\ UNCHANGED retrieved
          \/ /\ calls' = calls \o <<chain, search>>
             /\ \E docs \in SearchResults(search.arg[2]) : retrieved' = docs
             /\ state' = "ContextRetrieved"
             /\ UNCHANGED <<logs, response, thrown>>
    /\ UNCHANGED <<azureOpenAiEndpoint, requestBody, promptContext>>
    /\ UNCHANGED streamVars

\* await ragChain.stream({input: question, context}), then
\* return data(Readable.from(createJsonStream(responseStream)), headers)
StartStream ==
    /\ state = "ContextRetrieved"
    /\ calls' = Append(calls, Call("ragChain.stream",
                                   <<question(requestBody.messages), retrieved>>))
    /\ \/ /\ \E e \in ErrorMessages : Catch("stream", e)
          /\ UNCHANGED <<promptContext, responseStream>>
       \/ /\ \E s \in Streams(HandlerFragments, MaxHandlerFragments) :
                responseStream' = s
          /\ promptContext' = formatDocuments(retrieved)
          /\ response' = data("jsonStream", StreamHeaders)
          /\ state' = "Streaming"
          /\ UNCHANGED <<logs, thrown>>
    /\ UNCHANGED <<azureOpenAiEndpoint, requestBody, retrieved>>
    /\ UNCHANGED <<pulled, handled, holding, chunk, jsonStream>>

-----------------------------------------------------------------------------
(* createJsonStream, driven by the response stream after postChat returned *)

\* for await (const chunk of chunks): the next fragment arrives
NextChunk ==
    /\ state = "Streaming"
    /\ CanPull
    /\ pulled < Len(responseStream.frags)
    /\ chunk' = responseStream.frags[pulled + 1]
    /\ pulled' = pulled + 1
    /\ holding' = TRUE
    /\ UNCHANGED <<azureOpenAiEndpoint, requestBody, state, thrown, responseStream,
                   handled, jsonStream>>
    /\ UNCHANGED handlerVars

\* if (!chunk) continue
SkipChunk ==
    /\ state = "Streaming"
    /\ holding
    /\ ChunkFalsy(chunk)
    /\ holding' = FALSE
    /\ handled' = handled + 1
    /\ UNCHANGED <<azureOpenAiEndpoint, requestBody, state, thrown, responseStream,
                   pulled, chunk, jsonStream>>
    /\ UNCHANGED handlerVars

\* yield JSON.stringify(responseChunk) + '\n'
YieldLine ==
    /\ state = "Streaming"
    /\ holding
    /\ ~ChunkFalsy(chunk)
    /\ jsonStream' = Append(jsonStream, Line(chunk))
    /\ holding' = FALSE
    /\ handled' = handled + 1
    /\ UNCHANGED <<azureOpenAiEndpoint, requestBody, state, thrown, responseStream,
                   pulled, chunk>>
    /\ UNCHANGED handlerVars

\* the chat model is done: the loop and the generator end
StreamEnds ==
    /\ state = "Streaming"
    /\ ~holding
    /\ pulled = Len(responseStream.frags)
    /\ responseStream.ending = "done"
    /\ state' = "Completed"
    /\ UNCHANGED <<azureOpenAiEndpoint, requestBody, thrown>>
    /\ UNCHANGED handlerVars
    /\ UNCHANGED streamVars

\* The chat model throws while generating. postChat returned at `return data`,
\* so its try block is no longer on the stack: the rejection leaves the
\* generator and reaches the Readable that the response body is read from.
StreamThrows ==
    /\ state = "Streaming"
    /\ ~holding
    /\ pulled = Len(responseStream.frags)
    /\ responseStream.ending # "done"
    /\ thrown' = [at |-> "generation", message |-> responseStream.ending]
    /\ state' = "StreamDestroyed"
    /\ UNCHANGED <<azureOpenAiEndpoint, requestBody>>
    /\ UNCHANGED handlerVars
    /\ UNCHANGED streamVars

Next ==
    \/ RequestJsonThrows
    \/ RejectMessages
    \/ AcceptMessages
    \/ SelectBackend
    \/ RetrieveContext
    \/ StartStream
    \/ NextChunk
    \/ SkipChunk
    \/ YieldLine
    \/ StreamEnds
    \/ StreamThrows

Spec == Init /\ [][Next]_vars

\* createJsonStream on its own: postChat has just returned the stream of a
\* valid one-message request served by the local backend.
InitStream ==
    /\ azureOpenAiEndpoint = Undefined
    /\ requestBody = [parseable |-> TRUE, hasMessages |-> TRUE,
                      messages |-> <<[hasContent |-> TRUE,
                                      content |-> "Where should I move?"]>>]
    /\ state = "Streaming"
    /\ calls = (LocalCalls \o <<Call("createStuffDocumentsChain", <<>>),
                                asRetriever("Where should I move?")>>)
                  \o <<Call("ragChain.stream", <<"Where should I move?", <<>>>>)>>
    /\ logs = BackendLogs(Undefined)
    /\ response = data("jsonStream", StreamHeaders)
    /\ thrown = NoError
    /\ retrieved = <<>>
    /\ promptContext = <<>>
    /\ responseStream \in Streams(Fragments, MaxFragments)
    /\ pulled = 0
    /\ handled = 0
    /\ holding = FALSE
    /\ chunk = <<>>
    /\ jsonStream = <<>>

NextStream ==
    \/ NextChunk
    \/ SkipChunk
    \/ YieldLine
    \/ StreamEnds
    \/ StreamThrows

SpecStream == InitStream /\ [][NextStream]_vars

-----------------------------------------------------------------------------
(* Vocabulary of the properties *)

CountCalls(fn) == Cardinality({i \in DOMAIN calls : calls[i].fn = fn})

CloudConstructors ==
    {"AzureOpenAIEmbeddings", "AzureChatOpenAI", "AzureCosmosDBNoSQLVectorStore"}

LocalConstructors == {"OllamaEmbeddings", "ChatOllama", "FaissStore.load"}

\* the request as the claims describe it, read off the body alone
MessagesMissingOrEmpty == ~requestBody.hasMessages \/ requestBody.messages = <<>>

LastMessage == requestBody.messages[Len(requestBody.messages)]

LastContentEmptyOrAbsent ==
    /\ ~MessagesMissingOrEmpty
    /\ (~LastMessage.hasContent \/ LastMessage.content = "")

ValidRequest ==
    /\ requestBody.parseable
    /\ ~MessagesMissingOrEmpty
    /\ ~LastContentEmptyOrAbsent

ErrorLogged(message) ==
    \E i \in DOMAIN logs :
        /\ logs[i].level = "error"
        /\ message \in {logs[i].text[j] : j \in DOMAIN logs[i].text}

RECURSIVE Concat(_)
Concat(seqs) == IF seqs = <<>> THEN <<>> ELSE Head(seqs) \o Concat(Tail(seqs))

NonEmpty(f) == f # <<>>

Searches == SelectSeq(calls, LAMBDA c : c.fn = "similaritySearch")
Generations == SelectSeq(calls, LAMBDA c : c.fn = "ragChain.stream")

-----------------------------------------------------------------------------
(* C1 *)

\* C1: a request whose parsed body has messages missing, messages empty, or a
\* last message with empty or absent content gets the BadRequest response, and
\* no backend constructor or backend call is made for it.
C1_InvalidMessagesRejected ==
    (requestBody.parseable /\ (MessagesMissingOrEmpty \/ LastContentEmptyOrAbsent))
        => /\ calls = <<>>
           /\ state \in {"Received", "Rejected"}
           /\ state = "Rejected" => response = badRequest(InvalidMessage)

C1_Witness ==
    /\ state = "Rejected"
    /\ Len(requestBody.messages) = 2
    /\ requestBody.messages[1].content = "Where should I move?"
    /\ LastContentEmptyOrAbsent
    /\ response.kind = "badRequest"

-----------------------------------------------------------------------------
(* C2 *)

\* C2: a request whose body is not parseable as JSON fails with a BadRequest
\* outcome and no backend call is attempted.
C2_UnparseableIsBadRequest ==
    (~requestBody.parseable /\ state # "Received")
        => /\ response.kind = "badRequest"
           /\ calls = <<>>

-----------------------------------------------------------------------------
(* C3 *)

\* C3: when backend construction or the similarity search throws for a valid
\* request, the response is ServiceUnavailable with the fixed generic message,
\* whatever was thrown; the error's detail is in the log and not in the response.
C3_BackendFailureIsOpaque ==
    thrown.at \in {"backend", "retriever"}
        => /\ ValidRequest
           /\ state = "Failed"
           /\ response.kind = "serviceUnavailable"
           /\ response.body = GenericMessage
           /\ response.body # thrown.message
           /\ response.headers = <<>>
           /\ ErrorLogged(thrown.message)

C3_Witness ==
    /\ thrown = [at |-> "retriever", message |-> "index file not found"]
    /\ state = "Failed"
    /\ CountCalls("similaritySearch") = 1

-----------------------------------------------------------------------------
(* C4 *)

\* C4: every failure is caught at the top-level boundary of postChat; here the
\* case the claim singles out: an error raised by the chat model after some
\* lines were already emitted is caught, logged and answered with
\* ServiceUnavailable like a failure raised before streaming began.
C4_MidGenerationFailureCaught ==
    (thrown.at = "generation" /\ jsonStream # <<>>)
        => /\ state = "Failed"
           /\ response.kind = "serviceUnavailable"
           /\ ErrorLogged(thrown.message)

-----------------------------------------------------------------------------
(* C6 *)

ConstructedExactlyOnce(wanted, other) ==
    /\ \A fn \in wanted : CountCalls(fn) = 1
    /\ \A fn \in other : CountCalls(fn) = 0

SelectedVariantOnly ==
    IF azureOpenAiEndpoint # Undefined
    THEN ConstructedExactlyOnce(CloudConstructors, LocalConstructors)
    ELSE ConstructedExactlyOnce(LocalConstructors, CloudConstructors)

-----------------------------------------------------------------------------
(* C7 *)

OneSearchForLastContent ==
    /\ Len(Searches) = 1
    /\ Searches[1].arg = <<LastMessage.content, 3>>

\* C7 as stated: every valid request that has run to its end has issued
\* exactly one similarity search, for the last message's content and 3
\* results, and that content is the input of the generation pipeline.
C7_OneSearchForEveryValidRequest ==
    (ValidRequest /\ state \in {"Streaming", "Completed", "Failed", "StreamDestroyed"})
        => /\ OneSearchForLastContent
           /\ Len(Generations) = 1
           /\ Generations[1].arg[1] = LastMessage.content

\* C7 as amended: for every valid request whose backend construction and
\* pipeline assembly complete without throwing, whatever the number of
\* messages, exactly one similarity search is issued, for the last message's
\* content and 3 results; when that search returns, the same content is the
\* input given to the generation pipeline. No request issues a second search.
C7_OneSearchWhenRetrievalIsReached ==
    /\ (ValidRequest /\ state \notin {"Received", "Validated", "BackendSelected"}
        /\ thrown.at \notin {"backend", "chain"})
          => OneSearchForLastContent
    /\ (ValidRequest /\ state \in {"Streaming", "Completed", "StreamDestroyed"})
          => /\ Len(Generations) = 1
             /\ Generations[1].arg[1] = LastMessage.content
    /\ Len(Searches) <= 1
    /\ Len(Generations) <= 1
    /\ Generations # <<>> => Generations[1].arg[1] = LastMessage.content

C7_Witness ==
    /\ state = "Streaming"
    /\ Len(requestBody.messages) = 2
    /\ requestBody.messages[1].content = "Where should I move?"
    /\ requestBody.messages[2].content = "I am 30 and speak French"
    /\ Len(Searches) = 1

-----------------------------------------------------------------------------
(* C8 *)

AllowedTransitions ==
    {<<"Received", "Validated">>, <<"Received", "Rejected">>,
     <<"Validated", "BackendSelected">>, <<"BackendSelected", "ContextRetrieved">>,
     <<"ContextRetrieved", "Streaming">>, <<"Streaming", "Completed">>}
    \cup {<<s, "Failed">> :
            s \in {"Validated", "BackendSelected", "ContextRetrieved", "Streaming"}}

\* C8: a request moves Received -> Validated -> BackendSelected ->
\* ContextRetrieved -> Streaming -> Completed or Failed, Failed is entered only
\* from Validated onward, and a validation failure goes from Received to
\* Rejected: no other change of state happens.
C8_StateMachine == [][state' # state => <<state, state'>> \in AllowedTransitions]_vars

-----------------------------------------------------------------------------
(* C10 *)

ClaimedRendering(doc) == <<"[", doc.source, "]", ":", " ", doc.pageContent, "\n">>

ClaimedContext(docs) == Concat([i \in DOMAIN docs |-> ClaimedRendering(docs[i])])

JoinedContext(docs) ==
    Concat([i \in DOMAIN docs |->
              IF i < Len(docs) THEN ClaimedRendering(docs[i]) \o <<"\n", "\n">>
              ELSE ClaimedRendering(docs[i])])

DocA == [source |-> "a.txt", pageContent |-> "X"]
DocB == [source |-> "b.txt", pageContent |-> "Y"]

-----------------------------------------------------------------------------
(* C5 *)

\* Reading a line back as a client does: the body of a JSON string literal is
\* well formed when it holds no bare quote or newline and every backslash
\* starts a known escape.
RECURSIVE WellFormedStringBody(_)
WellFormedStringBody(s) ==
    IF s = <<>> THEN TRUE
    ELSE IF Head(s) = "\\"
         THEN /\ Len(s) >= 2
              /\ s[2] \in {"\"", "\\", "n"}
              /\ WellFormedStringBody(SubSeq(s, 3, Len(s)))
    ELSE /\ Head(s) \notin {"\"", "\n"}
         /\ WellFormedStringBody(Tail(s))

RECURSIVE ParseStringBody(_)
ParseStringBody(s) ==
    IF s = <<>> THEN <<>>
    ELSE IF Head(s) = "\\"
         THEN <<IF s[2] = "n" THEN "\n" ELSE s[2]>> \o ParseStringBody(SubSeq(s, 3, Len(s)))
    ELSE <<Head(s)>> \o ParseStringBody(Tail(s))

\* a line is one JSON object {delta: {content, role: "assistant"}} and one newline
WellFormedLine(line) ==
    /\ Len(line) >= 5
    /\ line[1] = ObjectOpen
    /\ line[2] = "\""
    /\ line[Len(line) - 2] = "\""
    /\ line[Len(line) - 1] = ObjectClose
    /\ line[Len(line)] = "\n"
    /\ WellFormedStringBody(SubSeq(line, 3, Len(line) - 3))

ContentOf(line) == ParseStringBody(SubSeq(line, 3, Len(line) - 3))

Produced == SubSeq(responseStream.frags, 1, handled)

\* C5: the lines emitted by createJsonStream are exactly the non-empty
\* fragments produced, in production order, each one JSON object
\* {delta: {content: fragment, role: "assistant"}} followed by a single newline;
\* nothing is added, merged, duplicated or reordered, and the concatenated
\* content fields equal the concatenation of the fragments produced.
C5_LinesAreTheNonEmptyFragments ==
    LET expected == SelectSeq(Produced, NonEmpty) IN
    /\ Len(jsonStream) = Len(expected)
    /\ \A i \in DOMAIN jsonStream :
          /\ WellFormedLine(jsonStream[i])
          /\ ContentOf(jsonStream[i]) = expected[i]
    /\ Concat([i \in DOMAIN jsonStream |-> ContentOf(jsonStream[i])]) = Concat(Produced)
    /\ state = "Completed" => handled = Len(responseStream.frags)

C5_Witness ==
    /\ state = "Completed"
    /\ responseStream.frags = <<<<"H", "e", "l">>, <<>>, <<"\n">>>>
    /\ Len(jsonStream) = 2
    /\ jsonStream[2] = <<ObjectOpen, "\"", "\\", "n", "\"", ObjectClose, "\n">>

-----------------------------------------------------------------------------
(* C9 *)

\* C9: createJsonStream holds at most one fragment at a time: when it requests
\* a fragment, every earlier fragment has been dealt with, and the line of
\* every earlier non-empty fragment has been emitted.
C9_OneFragmentAtATime ==
    /\ pulled - handled \in {0, 1}
    /\ pulled - handled = 1 <=> holding
    /\ Len(jsonStream) = Len(SelectSeq(Produced, NonEmpty))
    /\ holding => chunk = responseStream.frags[pulled]

C9_Witness ==
    /\ holding
    /\ pulled = 2
    /\ handled = 1
    /\ Len(jsonStream) = 1
    /\ chunk # <<>>

====
